---------------------------- MODULE Spec2Model ----------------------------
(***************************************************************************)
(* Household finance tracker: the recurring-transaction expansion of the   *)
(* transaction form (processSave), the scope resolution of the App         *)
(* handlers (handleSaveTransaction, confirmDelete) and the budget-default  *)
(* reconciliation (updateCategory), against a row store reached through    *)
(* the storage client.                                                     *)
(*                                                                         *)
(* Money.  The program computes on IEEE-754 doubles.  Every amount that    *)
(* reaches the store went through normalizeCurrency or through             *)
(* Math.floor(x * 100) / 100, so it is the double nearest to c/100 for an  *)
(* integer c: the model stores c (cents) and computes the doubles in       *)
(* between exactly (53-bit significands, round to nearest even).           *)
(*                                                                         *)
(* Dates.  An ISO date string is modelled by the integer YYYYMMDD, which   *)
(* orders like the string does; the time-of-day part is left out.          *)
(***************************************************************************)
EXTENDS Integers, Sequences, FiniteSets, TLC

(***************************************************************************)
(* Natural numbers of any size: little-endian sequences of limbs, no high  *)
(* zero limb (TLC's integers are 32 bits wide; a double's significand is   *)
(* 53 bits).                                                               *)
(***************************************************************************)
Limb == 2^20

Chunk == 2^10

RECURSIVE BigTrim(_)
BigTrim(s) ==
    IF s = <<>> THEN s
    ELSE IF s[Len(s)] = 0 THEN BigTrim(SubSeq(s, 1, Len(s) - 1)) ELSE s

RECURSIVE BigFromNat(_)
BigFromNat(n) ==
    IF n = 0 THEN <<>> ELSE <<n % Limb>> \o BigFromNat(n \div Limb)

RECURSIVE BigToNat(_)
BigToNat(s) ==
    IF s = <<>> THEN 0 ELSE s[1] + Limb * BigToNat(Tail(s))

\* s * k + c, for 0 <= k <= Chunk
RECURSIVE BigMulSmall(_, _, _)
BigMulSmall(s, k, c) ==
    IF s = <<>> THEN BigFromNat(c)
    ELSE LET v == s[1] * k + c
         IN  <<v % Limb>> \o BigMulSmall(Tail(s), k, v \div Limb)

\* quotient and remainder of s by d, for 0 < d <= Chunk
RECURSIVE BigDivRaw(_, _)
BigDivRaw(s, d) ==
    IF s = <<>> THEN [q |-> <<>>, r |-> 0]
    ELSE LET hi == BigDivRaw(Tail(s), d)
             v  == hi.r * Limb + s[1]
         IN  [q |-> <<v \div d>> \o hi.q, r |-> v % d]

BigDivSmall(s, d) ==
    LET Trimmed(x) == [q |-> BigTrim(x.q), r |-> x.r]
    IN  Trimmed(BigDivRaw(s, d))

RECURSIVE BigShl(_, _)
BigShl(s, n) ==
    IF s = <<>> \/ n = 0 THEN s
    ELSE IF n >= 20 THEN <<0>> \o BigShl(s, n - 20)
    ELSE IF n > 10 THEN BigMulSmall(BigShl(s, n - 10), Chunk, 0)
    ELSE BigMulSmall(s, 2^n, 0)

\* s shifted right by n bits, and whether a nonzero bit was shifted out
RECURSIVE BigShr(_, _)
BigShr(s, n) ==
    LET Dropped(x) == [q |-> x.q, sticky |-> x.sticky \/ s[1] # 0]
        Joined(x, y) == [q |-> y.q, sticky |-> y.sticky \/ x.r # 0]
        Chunked(x) == Joined(x, BigShr(x.q, n - 10))
        Divided(x) == [q |-> x.q, sticky |-> x.r # 0]
    IN  IF s = <<>> \/ n = 0 THEN [q |-> s, sticky |-> FALSE]
        ELSE IF n >= 20 THEN Dropped(BigShr(Tail(s), n - 20))
        ELSE IF n > 10 THEN Chunked(BigDivSmall(s, Chunk))
        ELSE Divided(BigDivSmall(s, 2^n))

RECURSIVE NatBits(_)
NatBits(n) == IF n = 0 THEN 0 ELSE 1 + NatBits(n \div 2)

BigBits(s) ==
    IF s = <<>> THEN 0 ELSE (Len(s) - 1) * 20 + NatBits(s[Len(s)])

RECURSIVE BigAddRaw(_, _, _)
BigAddRaw(a, b, c) ==
    IF a = <<>> /\ b = <<>> THEN BigFromNat(c)
    ELSE LET x == IF a = <<>> THEN 0 ELSE a[1]
             y == IF b = <<>> THEN 0 ELSE b[1]
             v == x + y + c
         IN  <<v % Limb>> \o BigAddRaw(IF a = <<>> THEN a ELSE Tail(a),
                                       IF b = <<>> THEN b ELSE Tail(b),
                                       v \div Limb)

BigAdd(a, b) == BigAddRaw(a, b, 0)

\* a - b - c for a >= b + c
RECURSIVE BigSubRaw(_, _, _)
BigSubRaw(a, b, c) ==
    IF a = <<>> THEN <<>>
    ELSE LET y == IF b = <<>> THEN 0 ELSE b[1]
             v == a[1] - y - c
         IN  <<v % Limb>> \o BigSubRaw(Tail(a),
                                       IF b = <<>> THEN b ELSE Tail(b),
                                       IF v < 0 THEN 1 ELSE 0)

BigSub(a, b) == BigTrim(BigSubRaw(a, b, 0))

\* a < b, both trimmed
RECURSIVE BigLess(_, _)
BigLess(a, b) ==
    IF Len(a) # Len(b) THEN Len(a) < Len(b)
    ELSE IF a = <<>> THEN FALSE
    ELSE IF a[Len(a)] # b[Len(b)] THEN a[Len(a)] < b[Len(b)]
    ELSE BigLess(SubSeq(a, 1, Len(a) - 1), SubSeq(b, 1, Len(b) - 1))

(***************************************************************************)
(* IEEE-754 doubles: [sg, m, e] stands for sg * m * 2^e, where m is zero   *)
(* or has exactly 53 bits.  The magnitudes the program meets are far from  *)
(* the subnormal and the infinite range.                                   *)
(***************************************************************************)
FZero == [sg |-> 1, m |-> <<>>, e |-> 0]

\* sg * (M + f) * 2^e rounded to nearest, ties to even, where 0 < f < 1 if
\* st and f = 0 otherwise; st needs M of 55 bits or more
FRound(sg, M, e, st) ==
    LET Carried(q2, e2) ==
            IF BigBits(q2) = 54
            THEN [sg |-> sg, m |-> BigShr(q2, 1).q, e |-> e2 + 1]
            ELSE [sg |-> sg, m |-> q2, e |-> e2]
        Nearest(x, q, e2) ==
            Carried(IF x.q[1] % 2 = 1 /\ (x.sticky \/ st \/ q[1] % 2 = 1)
                    THEN BigAddRaw(q, <<>>, 1) ELSE q, e2)
        Shifted(x, e2) == Nearest(x, BigShr(x.q, 1).q, e2)
        Sized(L) ==
            IF M = <<>> THEN FZero
            ELSE IF L <= 53
            THEN [sg |-> sg, m |-> BigShl(M, 53 - L), e |-> e - (53 - L)]
            ELSE Shifted(BigShr(M, L - 54), e + (L - 53))
    IN  Sized(BigBits(M))

\* the double of an integer
FInt(n) == FRound(IF n < 0 THEN -1 ELSE 1, BigFromNat(IF n < 0 THEN -n ELSE n), 0, FALSE)

\* x / d and x * k in double arithmetic, d and k small positive integers
FDivSmall(x, d) ==
    IF x.m = <<>> THEN x
    ELSE LET Rounded(y) == FRound(x.sg, y.q, x.e - 12, y.r # 0)
         IN  Rounded(BigDivSmall(BigShl(x.m, 12), d))

FMulSmall(x, k) == FRound(x.sg, BigMulSmall(x.m, k, 0), x.e, FALSE)

FNeg(x) == [x EXCEPT !.sg = -x.sg]

FAdd(x, y) ==
    LET Aligned(X, Y, e) ==
            FRound(IF x.sg = y.sg \/ ~BigLess(X, Y) THEN x.sg ELSE y.sg,
                   IF x.sg = y.sg THEN BigAdd(X, Y)
                   ELSE IF BigLess(X, Y) THEN BigSub(Y, X) ELSE BigSub(X, Y),
                   e, FALSE)
        At(e) == Aligned(BigShl(x.m, x.e - e), BigShl(y.m, y.e - e), e)
    IN  IF x.m = <<>> THEN y
        ELSE IF y.m = <<>> THEN x
        ELSE At(IF x.e < y.e THEN x.e ELSE y.e)

FSub(x, y) == FAdd(x, FNeg(y))

\* |x| as integer part and whether a fraction is left
FParts(x) ==
    LET Cut(y) == [q |-> BigToNat(y.q), sticky |-> y.sticky]
    IN  IF x.e >= 0 THEN [q |-> BigToNat(BigShl(x.m, x.e)), sticky |-> FALSE]
        ELSE Cut(BigShr(x.m, -x.e))

\* Math.floor
MathFloor(x) ==
    LET Floor(p) ==
            IF x.sg = 1 THEN p.q ELSE -(p.q + (IF p.sticky THEN 1 ELSE 0))
    IN  Floor(FParts(x))

\* Math.round: the nearest integer, a tie going up
MathRound(x) ==
    LET Halves(p) ==
            IF x.sg = 1 THEN (p.q + 1) \div 2
            ELSE IF p.sticky THEN (0 - p.q) \div 2
            ELSE (1 - p.q) \div 2
    IN  Halves(FParts([x EXCEPT !.e = x.e + 1]))

(***************************************************************************)
(* utils: money                                                            *)
(***************************************************************************)
\* parseFloat of a decimal string with two decimals, given as its cents:
\* the double nearest to c/100
parseFloat(c) == FDivSmall(FInt(c), 100)

\* the cents of a double, as the store's decimal column and the JSON text
\* of the request keep it
toCents(x) == MathRound(FMulSmall(x, 100))

normalizeCurrency(x) == FDivSmall(FInt(MathRound(FMulSmall(x, 100))), 100)

(***************************************************************************)
(* utils: dates (date-fns addMonths, addWeeks on YYYYMMDD)                 *)
(***************************************************************************)
YearOf(d) == d \div 10000

MonthOf(d) == (d \div 100) % 100

DayOf(d) == d % 100

MkDate(y, m, d) == y * 10000 + m * 100 + d

IsLeap(y) == (y % 4 = 0 /\ y % 100 # 0) \/ y % 400 = 0

DaysInMonth(y, m) ==
    IF m = 2 THEN (IF IsLeap(y) THEN 29 ELSE 28)
    ELSE IF m \in {4, 6, 9, 11} THEN 30 ELSE 31

\* the day of month is kept where the target month has it, else clamped
addMonths(date, n) ==
    LET t == YearOf(date) * 12 + (MonthOf(date) - 1) + n
        y == t \div 12
        m == (t % 12) + 1
        dim == DaysInMonth(y, m)
    IN  MkDate(y, m, IF DayOf(date) > dim THEN dim ELSE DayOf(date))

RECURSIVE addDays(_, _)
addDays(date, n) ==
    LET y == YearOf(date)
        m == MonthOf(date)
        left == DaysInMonth(y, m) - DayOf(date)
    IN  IF n <= left THEN date + n
        ELSE addDays(IF m = 12 THEN MkDate(y + 1, 1, 1) ELSE MkDate(y, m + 1, 1),
                     n - left - 1)

addWeeks(date, n) == addDays(date, 7 * n)

\* getMonthYearKey / billingDate.startsWith(key): the YYYYMM of a date
getMonthYearKey(date) == date \div 100

(***************************************************************************)
(* types: Transaction.  installmentCurrent and installmentTotal are        *)
(* optional; Undefined stands for a field that is not set.                 *)
(***************************************************************************)
Undefined == 0

\* no transaction (initialData = null, original = undefined)
NoTx == [id |-> Undefined]

Transaction(id, groupId, description, amount, type, category, date, billingDate, recurrenceType, installmentCurrent, installmentTotal) ==
    [id |-> id, groupId |-> groupId, description |-> description,
     amount |-> amount, type |-> type, category |-> category, date |-> date,
     billingDate |-> billingDate, recurrenceType |-> recurrenceType,
     installmentCurrent |-> installmentCurrent,
     installmentTotal |-> installmentTotal]

(***************************************************************************)
(* TransactionForm.processSave.  form holds the form's fields (amount in   *)
(* cents of the text typed), nid is the next value generateId returns.     *)
(* The result is transactionsToSave, with each amount in cents, and the    *)
(* number of ids generated.                                                *)
(***************************************************************************)
\* the strings of the model are upper case but for what Settings lets type
toUpperCase(str) == IF str = "mercado" THEN "MERCADO" ELSE str

\* every step taken back in time
getNextDateBack(startDate, index, freq) ==
    IF freq = "weekly" THEN addWeeks(startDate, 0 - index)
    ELSE IF freq = "biweekly" THEN addWeeks(startDate, 0 - index * 2)
    ELSE addMonths(startDate, 0 - index)

getNextDate(startDate, index, freq) ==
    IF freq = "weekly" THEN addWeeks(startDate, index)
    ELSE IF freq = "biweekly" THEN addWeeks(startDate, index * 2)
    ELSE addMonths(startDate, index)

parsedAmount(form) == normalizeCurrency(parseFloat(form.amount))

\* the purchase date whatever the form says
startBillingDateSame(form) == form.date

startBillingDate(form) ==
    IF form.startNextMonth THEN addMonths(form.date, 1) ELSE form.date

FixedMonthly == 24

FixedBiweekly == 26

FixedWeekly == 52

\* the monthly horizon whatever the frequency
fixedCountMonthly(form, scope) == IF scope = "single" THEN 1 ELSE FixedMonthly

fixedCount(form, scope) ==
    IF scope = "single" THEN 1
    ELSE IF form.frequency = "weekly" THEN FixedWeekly
    ELSE IF form.frequency = "biweekly" THEN FixedBiweekly
    ELSE FixedMonthly

baseInstallmentValue(amount, totalInstallments) ==
    FDivSmall(FInt(MathFloor(FMulSmall(FDivSmall(amount, totalInstallments), 100))), 100)

remainder(amount, totalInstallments) ==
    normalizeCurrency(FSub(amount,
        FMulSmall(baseInstallmentValue(amount, totalInstallments), totalInstallments)))

currentAmount(amount, totalInstallments, currentInstallmentNumber) ==
    IF currentInstallmentNumber = 1
    THEN normalizeCurrency(FAdd(baseInstallmentValue(amount, totalInstallments),
                                remainder(amount, totalInstallments)))
    ELSE baseInstallmentValue(amount, totalInstallments)

loopCount(form, scope) == IF scope = "single" THEN 1 ELSE form.installments

\* the edited entry's id kept by the first entry whatever the scope
NewIdFirstKept(initialData, scope, i, nid) ==
    IF initialData # NoTx /\ i = 0 THEN initialData.id
    ELSE nid + (IF initialData = NoTx THEN 1 ELSE 0) + i

NewId(initialData, scope, i, nid) ==
    IF initialData # NoTx /\ scope = "single" /\ i = 0 THEN initialData.id
    ELSE nid + (IF initialData = NoTx THEN 1 ELSE 0) + i

processSave(form, initialData, scope, nid) ==
    LET baseGroupId == IF initialData # NoTx THEN initialData.groupId ELSE nid
        purchaseDate == form.date
        upperDescription == toUpperCase(form.description)
        keep == initialData # NoTx /\ scope = "single"
        number(i) == IF keep THEN initialData.installmentCurrent ELSE i + 1
        transactionsToSave(whole, first, other) ==
          IF form.recurrenceType = "single" THEN
            << Transaction(NewId(initialData, scope, 0, nid), baseGroupId,
                 upperDescription, whole, form.type,
                 form.category, form.date, startBillingDate(form), "single",
                 Undefined, Undefined) >>
          ELSE IF form.recurrenceType = "fixed" THEN
            [ j \in 1..fixedCount(form, scope) |->
               Transaction(NewId(initialData, scope, j - 1, nid), baseGroupId,
                 upperDescription, whole, form.type,
                 form.category,
                 getNextDate(purchaseDate, j - 1, form.frequency),
                 getNextDate(startBillingDate(form), j - 1, form.frequency),
                 "fixed", Undefined, Undefined) ]
          ELSE IF form.recurrenceType = "installment" THEN
            [ j \in 1..loopCount(form, scope) |->
               Transaction(NewId(initialData, scope, j - 1, nid), baseGroupId,
                 upperDescription,
                 IF number(j - 1) = 1 THEN first ELSE other,
                 form.type, form.category,
                 IF form.frequency # "monthly"
                   THEN getNextDate(purchaseDate, j - 1, form.frequency)
                   ELSE form.date,
                 getNextDate(startBillingDate(form), j - 1, form.frequency),
                 "installment", number(j - 1), form.installments) ]
          ELSE
            [ j \in 1..loopCount(form, scope) |->
               Transaction(NewId(initialData, scope, j - 1, nid), baseGroupId,
                 upperDescription, whole, form.type,
                 form.category,
                 getNextDate(purchaseDate, j - 1, form.frequency),
                 getNextDate(startBillingDate(form), j - 1, form.frequency),
                 "repeat", number(j - 1), form.installments) ]
        Saved(txs) ==
          [transactionsToSave |-> txs,
           generated |-> (IF initialData = NoTx THEN 1 ELSE 0)
                         + (IF keep /\ Len(txs) > 0 THEN Len(txs) - 1 ELSE Len(txs))]
    IN  Saved(transactionsToSave(
              toCents(parsedAmount(form)),
              toCents(currentAmount(parsedAmount(form), form.installments, 1)),
              toCents(currentAmount(parsedAmount(form), form.installments, 2))))

(***************************************************************************)
(* State.                                                                  *)
(*   db               the store's transactions table (rows keyed by id)    *)
(*   dbCategories     the store's categories table                         *)
(*   dbBudgets        the store's monthly_budgets table                    *)
(*   transactions, categories, monthlyBudgets   the App's working set      *)
(*   inflight         the fetchData calls under way                        *)
(*   currentDate      the month on view, as YYYYMM                         *)
(*   isFormOpen, editingTransaction, form, showUpdateScopeModal            *)
(*                    the transaction form                                 *)
(*   deleteConfirmation   the delete dialog                                *)
(*   settings         the Settings panel's edit of a category              *)
(*   nextId           the next value of generateId                         *)
(*   last             what the last handler asked of the store (history)   *)
(*   session          the signed-in user's session, or none                *)
(***************************************************************************)
VARIABLES db, dbCategories, dbBudgets, transactions, categories, monthlyBudgets,
          inflight, currentDate, isFormOpen, editingTransaction, form,
          showUpdateScopeModal, deleteConfirmation, settings, nextId, last,
          session

vars == <<db, dbCategories, dbBudgets, transactions, categories, monthlyBudgets,
          inflight, currentDate, isFormOpen, editingTransaction, form,
          showUpdateScopeModal, deleteConfirmation, settings, nextId, last,
          session>>

storeVars == <<db, dbCategories, dbBudgets>>

txUiVars == <<isFormOpen, editingTransaction, form, showUpdateScopeModal,
              deleteConfirmation>>

(***************************************************************************)
(* Bounds of the model and the inputs the user draws from.                 *)
(***************************************************************************)
MaxOps == 2

MaxCreates == 1

MaxInflight == 2

MaxTyped == 1

FirstMonth == getMonthYearKey(20240101)

MonthsAhead == 2

Amounts == {10000}

Counts == {2, 3}

Dates == {20240103, 20240131}

FormTypes == {"expense", "income"}

Frequencies == {"monthly", "biweekly", "weekly"}

RecurrenceTypes == {"single", "installment", "fixed", "repeat"}

NoForm == [recurrenceType |-> "none"]

NoConfirmation == [id |-> Undefined]

NoLast == [op |-> "none", n |-> 0, creates |-> 0]

NoSession == [user |-> Undefined]

Session == [user |-> 1]

\* a payroll deduction, as the store holds them
PayrollRow ==
    Transaction(1, 1, "INSS", 5000, "payroll_deduction", "FOOD", 20240105,
                20240105, "single", Undefined, Undefined)

InitialStores == { {PayrollRow} }

(***************************************************************************)
(* The storage client's requests on the transactions table.                *)
(***************************************************************************)
Range(seq) == { seq[i] : i \in 1..Len(seq) }

\* insert(rows): one statement; a row whose id is taken rejects it whole
insertRows(table, rows) ==
    IF \E r \in rows : \E s \in table : s.id = r.id THEN table
    ELSE table \cup rows

\* the row added beside the one that has its id
upsertRowAdded(table, row) == table \cup {row}

\* upsert(row): the row with that id is replaced, or the row is added
upsertRow(table, row) == { s \in table : s.id # row.id } \cup {row}

\* delete().eq('id', id)
deleteById(table, id) == { s \in table : s.id # id }

\* the group filter left out
deleteFutureAnyGroup(table, gid, cutoff) ==
    { s \in table : ~(s.billingDate >= cutoff) }

\* gt in place of gte
deleteFutureAfter(table, gid, cutoff) ==
    { s \in table : ~(s.groupId = gid /\ s.billingDate > cutoff) }

\* delete().eq('group_id', gid).gte('billing_date', cutoff)
deleteFuture(table, gid, cutoff) ==
    { s \in table : ~(s.groupId = gid /\ s.billingDate >= cutoff) }

\* insert(rows) answered with an error: nothing is stored
rejectInsertStored(table, rows) == table \cup rows

rejectInsert(table, rows) == table

(***************************************************************************)
(* fetchData: not awaited by any handler.  The store answers the select    *)
(* at some point, and the answer reaches setTransactions at a later one.   *)
(***************************************************************************)
Requested == [stage |-> "requested"]

fetchData == inflight \cup {Requested}

CanFetch == Cardinality(fetchData) <= MaxInflight

StoreSelectTransactions ==
    /\ Requested \in inflight
    /\ inflight' = (inflight \ {Requested}) \cup {[stage |-> "answered", data |-> db]}
    /\ UNCHANGED <<storeVars, transactions, categories, monthlyBudgets, currentDate,
                   txUiVars, settings, nextId, last, session>>

setTransactions ==
    \E f \in inflight :
        /\ f.stage = "answered"
        /\ transactions' = f.data
        /\ inflight' = inflight \ {f}
        /\ UNCHANGED <<storeVars, categories, monthlyBudgets, currentDate,
                       txUiVars, settings, nextId, last, session>>

(***************************************************************************)
(* App: the month on view and the rows it lists.                           *)
(***************************************************************************)
NoDialog ==
    /\ ~isFormOpen
    /\ deleteConfirmation = NoConfirmation
    /\ ~settings.open

filteredTransactions ==
    { t \in transactions : getMonthYearKey(t.billingDate) = currentDate }

LastMonth == getMonthYearKey(addMonths(FirstMonth * 100 + 1, MonthsAhead))

\* the header's previous / next month buttons
setCurrentDate ==
    /\ NoDialog
    /\ last.n < MaxOps
    /\ \E step \in {-1, 1} :
         LET next == getMonthYearKey(addMonths(currentDate * 100 + 1, step))
         IN  /\ next >= FirstMonth
             /\ next <= LastMonth
             /\ currentDate' = next
    /\ UNCHANGED <<storeVars, transactions, categories, monthlyBudgets, inflight,
                   txUiVars, settings, nextId, last, session>>

(***************************************************************************)
(* TransactionForm.                                                        *)
(***************************************************************************)
\* the useEffect that fills the form from initialData
isNextMonth(t) ==
    MonthOf(t.billingDate) # MonthOf(t.date) \/ YearOf(t.billingDate) # YearOf(t.date)

prefilledInstallments(t) ==
    IF t.installmentTotal = Undefined THEN 2 ELSE t.installmentTotal

\* the form as the useEffect leaves it when nothing is typed over
Prefill(t) ==
    [ description |-> toUpperCase(t.description), amount |-> t.amount,
      type |-> t.type, category |-> t.category, date |-> t.date,
      recurrenceType |-> t.recurrenceType, frequency |-> "monthly",
      installments |-> prefilledInstallments(t),
      startNextMonth |-> isNextMonth(t) ]

\* what the user may submit: a new entry's form filled in; an edited
\* entry's form as prefilled, with at most MaxTyped fields typed over
FormFields ==
    {"description", "amount", "type", "category", "date", "recurrenceType",
     "frequency", "installments", "startNextMonth"}

Typed(f, g) == Cardinality({ k \in FormFields : f[k] # g[k] })

FormInputs(initialData) ==
    LET edit == initialData # NoTx
    IN  { f \in [ description : {"MERCADO"} \cup (IF edit THEN {initialData.description} ELSE {}),
                  amount : Amounts \cup (IF edit THEN {initialData.amount} ELSE {}),
                  type : FormTypes \cup (IF edit THEN {initialData.type} ELSE {}),
                  category : {"FOOD"} \cup (IF edit THEN {initialData.category} ELSE {}),
                  date : Dates \cup (IF edit THEN {initialData.date} ELSE {}),
                  recurrenceType : RecurrenceTypes,
                  frequency : Frequencies,
                  installments : Counts \cup (IF edit THEN {prefilledInstallments(initialData)} ELSE {}),
                  startNextMonth : BOOLEAN ] :
            IF edit THEN Typed(f, Prefill(initialData)) <= MaxTyped
            ELSE /\ f.recurrenceType = "single" => f.frequency = "monthly"
                 /\ f.recurrenceType \in {"single", "fixed"} => f.installments = 2 }

\* the floating + button
OpenCreate ==
    /\ NoDialog
    /\ last.n < MaxOps
    /\ last.creates < MaxCreates
    /\ isFormOpen' = TRUE
    /\ editingTransaction' = NoTx
    /\ UNCHANGED <<storeVars, transactions, categories, monthlyBudgets, inflight,
                   currentDate, form, showUpdateScopeModal, deleteConfirmation,
                   settings, nextId, last, session>>

\* a row's edit button
OpenEdit ==
    /\ NoDialog
    /\ last.n < MaxOps
    /\ \E t \in filteredTransactions :
         /\ editingTransaction' = t
         /\ isFormOpen' = TRUE
    /\ UNCHANGED <<storeVars, transactions, categories, monthlyBudgets, inflight,
                   currentDate, form, showUpdateScopeModal, deleteConfirmation,
                   settings, nextId, last, session>>

onClose ==
    /\ isFormOpen
    /\ ~showUpdateScopeModal
    /\ isFormOpen' = FALSE
    /\ UNCHANGED <<storeVars, transactions, categories, monthlyBudgets, inflight,
                   currentDate, editingTransaction, form, showUpdateScopeModal,
                   deleteConfirmation, settings, nextId, last, session>>

(***************************************************************************)
(* App.handleSaveTransaction, reached from processSave through onSave, and *)
(* what processSave does after it (the dialog and the form close).         *)
(***************************************************************************)
\* the request before the last one, as far as later checks look back
Brief(l) ==
    IF l.op = "create"
    THEN [op |-> "create", before |-> l.before, saved |-> l.saved, form |-> l.form]
    ELSE [op |-> l.op]

\* The insert that follows the delete of a future-scope edit is answered by
\* the store or by an error; neither answer is read.
handleSaveTransaction(f, scope, asked) ==
    \E ps \in {processSave(f, editingTransaction, scope, nextId)} :
    \E original \in {editingTransaction} :
    \E newTransactions \in {ps.transactionsToSave} :
    \E inserted \in IF original # NoTx /\ scope = "future" THEN BOOLEAN ELSE {TRUE} :
        /\ last.n < MaxOps
        /\ CanFetch
        /\ db' = IF original = NoTx THEN insertRows(db, Range(newTransactions))
                 ELSE IF scope = "single" THEN upsertRow(db, newTransactions[1])
                 ELSE IF inserted
                 THEN insertRows(deleteFuture(db, original.groupId, original.billingDate),
                                 Range(newTransactions))
                 ELSE rejectInsert(deleteFuture(db, original.groupId, original.billingDate),
                                   Range(newTransactions))
        /\ inflight' = fetchData
        /\ nextId' = nextId + ps.generated
        /\ showUpdateScopeModal' = FALSE
        /\ isFormOpen' = FALSE
        /\ form' = NoForm
        /\ last' = [op |-> IF original = NoTx THEN "create" ELSE "edit",
                    scope |-> scope, before |-> db, original |-> original,
                    saved |-> newTransactions, asked |-> asked, form |-> f,
                    conf |-> NoConfirmation, inserted |-> inserted,
                    prev |-> Brief(last), n |-> last.n + 1,
                    creates |-> last.creates + (IF original = NoTx THEN 1 ELSE 0)]
        /\ UNCHANGED <<dbCategories, dbBudgets, transactions, categories,
                       monthlyBudgets, currentDate, editingTransaction,
                       deleteConfirmation, settings, session>>

\* a field of the form left empty (amount, date)
Blank == -1

\* description && amount && category && date
filled(f) ==
    f.description # "" /\ f.amount # Blank /\ f.category # "" /\ f.date # Blank

\* alert(...); return
alert == UNCHANGED vars

\* the Save button
handleSubmit ==
    /\ isFormOpen
    /\ ~showUpdateScopeModal
    /\ \E f \in FormInputs(editingTransaction) :
         IF ~filled(f) THEN alert
         ELSE IF editingTransaction # NoTx
         THEN IF editingTransaction.recurrenceType # "single" \/ f.recurrenceType # "single"
              THEN /\ showUpdateScopeModal' = TRUE
                   /\ form' = f
                   /\ UNCHANGED <<storeVars, transactions, categories, monthlyBudgets,
                                  inflight, currentDate, isFormOpen, editingTransaction,
                                  deleteConfirmation, settings, nextId, last,
                                  session>>
              ELSE handleSaveTransaction(f, "single", FALSE)
         ELSE handleSaveTransaction(f, "future", FALSE)

\* the two buttons of the scope dialog
chooseUpdateScope ==
    /\ showUpdateScopeModal
    /\ \E scope \in {"single", "future"} : handleSaveTransaction(form, scope, TRUE)

\* its Cancel button
cancelUpdateScope ==
    /\ showUpdateScopeModal
    /\ showUpdateScopeModal' = FALSE
    /\ form' = NoForm
    /\ UNCHANGED <<storeVars, transactions, categories, monthlyBudgets, inflight,
                   currentDate, isFormOpen, editingTransaction, deleteConfirmation,
                   settings, nextId, last, session>>

(***************************************************************************)
(* App: delete.                                                            *)
(***************************************************************************)
\* a row's delete button: the dialog is always opened
handleDeleteClick ==
    /\ NoDialog
    /\ last.n < MaxOps
    /\ \E t \in filteredTransactions :
         deleteConfirmation' = [id |-> t.id, recurrenceType |-> t.recurrenceType,
                                type |-> t.type, groupId |-> t.groupId,
                                description |-> t.description]
    /\ UNCHANGED <<storeVars, transactions, categories, monthlyBudgets, inflight,
                   currentDate, isFormOpen, editingTransaction, form,
                   showUpdateScopeModal, settings, nextId, last, session>>

\* the dialog offers the two scopes, or the single "yes, delete"
scopeOffered(conf) ==
    conf.type = "payroll_deduction" \/ conf.recurrenceType # "single"

\* transactions.find(t => t.id === id)
find(id) ==
    IF \E t \in transactions : t.id = id
    THEN CHOOSE t \in transactions : t.id = id
    ELSE NoTx

confirmDelete(scope) ==
    LET target == find(deleteConfirmation.id)
    IN  /\ deleteConfirmation # NoConfirmation
        /\ scope = "future" => scopeOffered(deleteConfirmation)
        /\ last.n < MaxOps
        /\ CanFetch
        /\ db' = IF scope = "single" THEN deleteById(db, deleteConfirmation.id)
                 ELSE IF target # NoTx
                 THEN deleteFuture(db, deleteConfirmation.groupId, target.billingDate)
                 ELSE db
        /\ inflight' = fetchData
        /\ deleteConfirmation' = NoConfirmation
        /\ last' = [op |-> "delete", scope |-> scope, before |-> db,
                    original |-> target, saved |-> <<>>,
                    asked |-> scopeOffered(deleteConfirmation), form |-> NoForm,
                    conf |-> deleteConfirmation, inserted |-> TRUE,
                    prev |-> Brief(last), n |-> last.n + 1,
                    creates |-> last.creates]
        /\ UNCHANGED <<dbCategories, dbBudgets, transactions, categories,
                       monthlyBudgets, currentDate, isFormOpen, editingTransaction,
                       form, showUpdateScopeModal, settings, nextId, session>>

confirmDeleteSingle == confirmDelete("single")

confirmDeleteFuture == confirmDelete("future")

cancelDelete ==
    /\ deleteConfirmation # NoConfirmation
    /\ deleteConfirmation' = NoConfirmation
    /\ UNCHANGED <<storeVars, transactions, categories, monthlyBudgets, inflight,
                   currentDate, isFormOpen, editingTransaction, form,
                   showUpdateScopeModal, settings, nextId, last, session>>

(***************************************************************************)
(* The transactions specification: the user is signed in, the first        *)
(* fetchData is under way.                                                 *)
(***************************************************************************)
NoSettings == [open |-> FALSE]

Init ==
    /\ db \in InitialStores
    /\ dbCategories = {}
    /\ dbBudgets = {}
    /\ transactions = {}
    /\ categories = {}
    /\ monthlyBudgets = {}
    /\ inflight = {Requested}
    /\ currentDate = FirstMonth
    /\ isFormOpen = FALSE
    /\ editingTransaction = NoTx
    /\ form = NoForm
    /\ showUpdateScopeModal = FALSE
    /\ deleteConfirmation = NoConfirmation
    /\ settings = NoSettings
    /\ nextId = 2
    /\ last = NoLast
    /\ session = Session

Next ==
    \/ StoreSelectTransactions
    \/ setTransactions
    \/ setCurrentDate
    \/ OpenCreate
    \/ OpenEdit
    \/ onClose
    \/ handleSubmit
    \/ chooseUpdateScope
    \/ cancelUpdateScope
    \/ handleDeleteClick
    \/ confirmDeleteSingle
    \/ confirmDeleteFuture
    \/ cancelDelete

Spec == Init /\ [][Next]_vars

(***************************************************************************)
(* Budgets.  The categories table holds [id, name, budget], budget being   *)
(* the category's default; monthly_budgets holds the overrides             *)
(* [id, category_id, month_year, amount], month_year as YYYYMM, one row at *)
(* most for a (category_id, month_year), as the upsert's onConflict        *)
(* requires of the table.                                                  *)
(***************************************************************************)
NoCategory == [id |-> Undefined]

CategoryData(id, name, budget) == [id |-> id, name |-> name, budget |-> budget]

MonthlyBudget(id, category_id, month_year, amount) ==
    [id |-> id, category_id |-> category_id, month_year |-> month_year,
     amount |-> amount]

\* subMonths on a month key
subMonths(key, n) == getMonthYearKey(addMonths(key * 100 + 1, 0 - n))

\* monthlyBudgets.find / some, on the working set or on the table
hasSpecific(budgets, id, mKey) ==
    \E mb \in budgets : mb.category_id = id /\ mb.month_year = mKey

specificBudget(budgets, id, mKey) ==
    CHOOSE mb \in budgets : mb.category_id = id /\ mb.month_year = mKey

\* the budget of a category in a month: the override's, or the default
effectiveBudget(cat, budgets, mKey) ==
    IF hasSpecific(budgets, cat.id, mKey)
    THEN specificBudget(budgets, cat.id, mKey).amount
    ELSE cat.budget

\* what Settings is given to list
effectiveCategories ==
    { [cat EXCEPT !.budget = effectiveBudget(cat, monthlyBudgets, currentDate)] :
      cat \in categories }

\* categories.find(c => c.id === id)
findCategory(id) ==
    IF \E c \in categories : c.id = id
    THEN CHOOSE c \in categories : c.id = id
    ELSE NoCategory

(***************************************************************************)
(* The storage client's requests on categories and monthly_budgets.        *)
(***************************************************************************)
\* update({ name }).eq('id', id)
updateName(table, id, name) ==
    { IF c.id = id THEN [c EXCEPT !.name = name] ELSE c : c \in table }

\* update({ budget }).eq('id', id)
updateBudget(table, id, budget) ==
    { IF c.id = id THEN [c EXCEPT !.budget = budget] ELSE c : c \in table }

\* every row stored, whatever the table holds
insertOverridesAll(table, rows) == table \cup rows

\* insert(rows): one statement; a row whose (category_id, month_year) is
\* taken rejects it whole, and the handler does not read the error
insertOverrides(table, rows) ==
    IF \E r \in rows : hasSpecific(table, r.category_id, r.month_year) THEN table
    ELSE table \cup rows

\* the row added beside the one that has its (category_id, month_year)
upsertOverrideAdded(table, row) == table \cup {row}

\* upsert(payload, { onConflict: 'category_id, month_year' })
upsertOverride(table, row) ==
    IF hasSpecific(table, row.category_id, row.month_year)
    THEN { IF mb.category_id = row.category_id /\ mb.month_year = row.month_year
           THEN [mb EXCEPT !.amount = row.amount] ELSE mb : mb \in table }
    ELSE table \cup {row}

\* the override of the month on view left in place
deleteOverrideSkipped(table, id, mKey) == table

\* delete().eq('category_id', id).eq('month_year', mKey)
deleteOverride(table, id, mKey) ==
    { mb \in table : ~(mb.category_id = id /\ mb.month_year = mKey) }

(***************************************************************************)
(* fetchData, as far as categories and monthly_budgets go: the two selects *)
(* follow one another, each answered by the store at some point and        *)
(* applied to the working set at a later one.                              *)
(***************************************************************************)
CategoriesRequested == [stage |-> "categories"]

BudgetsRequested == [stage |-> "budgets"]

fetchBudgetData == inflight \cup {CategoriesRequested}

CanFetchBudgetData == Cardinality(fetchBudgetData) <= MaxInflight

StoreSelectCategories ==
    /\ CategoriesRequested \in inflight
    /\ inflight' = (inflight \ {CategoriesRequested})
                     \cup {[stage |-> "categoriesAnswered", data |-> dbCategories]}
    /\ UNCHANGED <<storeVars, transactions, categories, monthlyBudgets, currentDate,
                   txUiVars, settings, nextId, last, session>>

setCategories ==
    \E f \in inflight :
        /\ f.stage = "categoriesAnswered"
        /\ categories' = f.data
        /\ inflight' = (inflight \ {f}) \cup {BudgetsRequested}
        /\ UNCHANGED <<storeVars, transactions, monthlyBudgets, currentDate,
                       txUiVars, settings, nextId, last, session>>

StoreSelectBudgets ==
    /\ BudgetsRequested \in inflight
    /\ inflight' = (inflight \ {BudgetsRequested})
                     \cup {[stage |-> "budgetsAnswered", data |-> dbBudgets]}
    /\ UNCHANGED <<storeVars, transactions, categories, monthlyBudgets, currentDate,
                   txUiVars, settings, nextId, last, session>>

setMonthlyBudgets ==
    \E f \in inflight :
        /\ f.stage = "budgetsAnswered"
        /\ monthlyBudgets' = f.data
        /\ inflight' = inflight \ {f}
        /\ UNCHANGED <<storeVars, transactions, categories, currentDate,
                       txUiVars, settings, nextId, last, session>>

(***************************************************************************)
(* App.updateCategory.                                                     *)
(***************************************************************************)
FreezeMonths == 24

\* the overrides the freeze loop collects: the old default for each of the
\* FreezeMonths months before the one on view that the working set shows
\* no override for.  nid + i stands for the id the store gives the row.
monthsToFreeze(id, oldBudget, nid) ==
    { MonthlyBudget(nid + i, id, subMonths(currentDate, i), oldBudget) :
      i \in { k \in 1..FreezeMonths :
                ~hasSpecific(monthlyBudgets, id, subMonths(currentDate, k)) } }

\* category?.budget || 0
oldBudgetOf(category) == IF category = NoCategory THEN 0 ELSE category.budget

updateCategory(id, name, budget, scope, asked) ==
    \E oldBudget \in {oldBudgetOf(findCategory(id))} :
    \E frozen \in {IF oldBudget # budget THEN monthsToFreeze(id, oldBudget, nextId)
                   ELSE {}} :
        /\ last.n < MaxOps
        /\ CanFetchBudgetData
        /\ dbCategories' =
             IF scope = "future"
             THEN updateBudget(updateName(dbCategories, id, name), id, budget)
             ELSE updateName(dbCategories, id, name)
        /\ dbBudgets' =
             IF scope = "future"
             THEN deleteOverride(insertOverrides(dbBudgets, frozen), id, currentDate)
             ELSE upsertOverride(dbBudgets,
                                 MonthlyBudget(nextId, id, currentDate, budget))
        /\ nextId' = nextId + FreezeMonths + 1
        /\ inflight' = fetchBudgetData
        /\ last' = [op |-> "budget", scope |-> scope, id |-> id, budget |-> budget,
                    month |-> currentDate, asked |-> asked,
                    beforeCategories |-> dbCategories, beforeBudgets |-> dbBudgets,
                    prev |-> IF last.op = "budget"
                             THEN [op |-> "budget", scope |-> last.scope,
                                   id |-> last.id, budget |-> last.budget,
                                   month |-> last.month]
                             ELSE [op |-> "none"],
                    n |-> last.n + 1, creates |-> last.creates]
        /\ UNCHANGED <<db, transactions, categories, monthlyBudgets, currentDate,
                       txUiVars, session>>

(***************************************************************************)
(* Settings: the edit of a category.                                       *)
(***************************************************************************)
BudgetValues == {100, 200}

CategoryNames == {"mercado"}

NoPending == [id |-> Undefined]

SettingsOpened ==
    [open |-> TRUE, editingId |-> Undefined, editValue |-> "",
     originalBudget |-> Undefined, showScopeModal |-> FALSE,
     pendingUpdate |-> NoPending]

\* the header's settings button
setIsSettingsOpen ==
    /\ NoDialog
    /\ last.n < MaxOps
    /\ settings' = SettingsOpened
    /\ UNCHANGED <<storeVars, transactions, categories, monthlyBudgets, inflight,
                   currentDate, txUiVars, nextId, last, session>>

closeSettings ==
    /\ settings.open
    /\ ~settings.showScopeModal
    /\ settings' = NoSettings
    /\ UNCHANGED <<storeVars, transactions, categories, monthlyBudgets, inflight,
                   currentDate, txUiVars, nextId, last, session>>

\* a category's edit button
handleStartEdit ==
    /\ settings.open
    /\ ~settings.showScopeModal
    /\ last.n < MaxOps
    /\ \E cat \in effectiveCategories :
         settings' = [settings EXCEPT !.editingId = cat.id,
                                      !.editValue = toUpperCase(cat.name),
                                      !.originalBudget = cat.budget]
    /\ UNCHANGED <<storeVars, transactions, categories, monthlyBudgets, inflight,
                   currentDate, txUiVars, nextId, last, session>>

finishEdit(st) ==
    [st EXCEPT !.editingId = Undefined, !.editValue = "",
               !.originalBudget = Undefined]

\* the edit's save button, the name and the budget as typed
handleSaveEdit ==
    /\ settings.open
    /\ ~settings.showScopeModal
    /\ settings.editingId # Undefined
    /\ \E upperValue \in { toUpperCase(v) : v \in CategoryNames \cup {settings.editValue} } :
       \E budgetVal \in BudgetValues \cup {settings.originalBudget} :
         IF budgetVal # settings.originalBudget
         THEN /\ settings' =
                   [settings EXCEPT !.showScopeModal = TRUE,
                                    !.pendingUpdate =
                                        [id |-> settings.editingId,
                                         name |-> upperValue,
                                         budget |-> budgetVal]]
              /\ UNCHANGED <<storeVars, transactions, categories, monthlyBudgets,
                             inflight, currentDate, txUiVars, nextId, last,
                             session>>
         ELSE /\ updateCategory(settings.editingId, upperValue, budgetVal,
                                "future", FALSE)
              /\ settings' = finishEdit(settings)

\* the two buttons of the scope dialog
confirmScope ==
    /\ settings.open
    /\ settings.showScopeModal
    /\ \E scope \in {"single", "future"} :
         /\ updateCategory(settings.pendingUpdate.id, settings.pendingUpdate.name,
                           settings.pendingUpdate.budget, scope, TRUE)
         /\ settings' = finishEdit([settings EXCEPT !.showScopeModal = FALSE,
                                                    !.pendingUpdate = NoPending])

\* its Cancel button
cancelScope ==
    /\ settings.open
    /\ settings.showScopeModal
    /\ settings' = [settings EXCEPT !.showScopeModal = FALSE,
                                    !.pendingUpdate = NoPending]
    /\ UNCHANGED <<storeVars, transactions, categories, monthlyBudgets, inflight,
                   currentDate, txUiVars, nextId, last, session>>

(***************************************************************************)
(* The budgets specification: two categories, with or without overrides    *)
(* in the store, the first fetchData under way.                            *)
(***************************************************************************)
InitialCategories ==
    { CategoryData(1, "FOOD", 300), CategoryData(2, "CASA", 100) }

InitialOverrides ==
    { {},
      { MonthlyBudget(3, 1, FirstMonth, 200),
        MonthlyBudget(4, 1, subMonths(FirstMonth, 2), 50),
        MonthlyBudget(5, 2, FirstMonth, 70) } }

InitBudget ==
    /\ db = {}
    /\ dbCategories = InitialCategories
    /\ dbBudgets \in InitialOverrides
    /\ transactions = {}
    /\ categories = {}
    /\ monthlyBudgets = {}
    /\ inflight = {CategoriesRequested}
    /\ currentDate = FirstMonth
    /\ isFormOpen = FALSE
    /\ editingTransaction = NoTx
    /\ form = NoForm
    /\ showUpdateScopeModal = FALSE
    /\ deleteConfirmation = NoConfirmation
    /\ settings = NoSettings
    /\ nextId = 6
    /\ last = NoLast
    /\ session = Session

NextBudget ==
    \/ StoreSelectCategories
    \/ setCategories
    \/ StoreSelectBudgets
    \/ setMonthlyBudgets
    \/ setCurrentDate
    \/ setIsSettingsOpen
    \/ closeSettings
    \/ handleStartEdit
    \/ handleSaveEdit
    \/ confirmScope
    \/ cancelScope

SpecBudget == InitBudget /\ [][NextBudget]_vars

(***************************************************************************)
(* The installment split on its own: a new entry's form holds an           *)
(* installment purchase of any amount up to MaxCents cents in 2..MaxParts  *)
(* parts, and Save is pressed.                                             *)
(***************************************************************************)
MaxCents == 60

MaxParts == 4

\* what may be typed: totals up to MaxCents, nothing, zero or a negative
\* total; the count from 1 (the field's min is not enforced, no form
\* element submits it); the category and the date chosen or left empty
SplitForms ==
    { [ description |-> "MERCADO", amount |-> a, type |-> "expense",
        category |-> c, date |-> d, recurrenceType |-> "installment",
        frequency |-> "monthly", installments |-> n, startNextMonth |-> FALSE ] :
      a \in 1..MaxCents \cup {Blank, 0, -100}, n \in 1..MaxParts,
      c \in {"FOOD", ""}, d \in {20240131, Blank} }

InitSplit ==
    /\ db = {}
    /\ dbCategories = {}
    /\ dbBudgets = {}
    /\ transactions = {}
    /\ categories = {}
    /\ monthlyBudgets = {}
    /\ inflight = {Requested}
    /\ currentDate = FirstMonth
    /\ isFormOpen = TRUE
    /\ editingTransaction = NoTx
    /\ form \in SplitForms
    /\ showUpdateScopeModal = FALSE
    /\ deleteConfirmation = NoConfirmation
    /\ settings = NoSettings
    /\ nextId = 1
    /\ last = NoLast
    /\ session = Session

\* Save on the form as typed
handleSubmitTyped ==
    /\ isFormOpen
    /\ form # NoForm
    /\ editingTransaction = NoTx
    /\ IF ~filled(form) THEN alert
       ELSE handleSaveTransaction(form, "future", FALSE)

NextSplit ==
    \/ handleSubmitTyped
    \/ StoreSelectTransactions
    \/ setTransactions

SpecSplit == InitSplit /\ [][NextSplit]_vars

(***************************************************************************)
(* SummaryCards and AnnualComparison: the figures of a month.  Amounts     *)
(* and budgets are numbers with two decimals, kept here as their cents; a  *)
(* number normalizeCurrency returns is the double nearest k / 100, kept    *)
(* as k.  The select asks for no order: the rows are visited by id.        *)
(***************************************************************************)
\* normalizeCurrency(a + b)
sumCurrency(a, b) == toCents(FAdd(parseFloat(a), parseFloat(b)))

\* .reduce((sum, t) => normalizeCurrency(sum + t.amount), sum)
RECURSIVE reduce(_, _)
reduce(rows, sum) ==
    LET Rest(t) == reduce(rows \ {t}, sumCurrency(sum, t.amount))
    IN  IF rows = {} THEN sum
        ELSE Rest(CHOOSE r \in rows : \A o \in rows : r.id <= o.id)

incomes(txs) == reduce({ t \in txs : t.type = "income" }, 0)

payrollDeductions(txs) == reduce({ t \in txs : t.type = "payroll_deduction" }, 0)

\* the first argument only
grossIncomeOfIncomes(inc, ded) == inc

grossIncome(inc, ded) == sumCurrency(inc, ded)

\* the expense rows only
spendingExpenses(txs) == { t \in txs : t.type = "expense" }

\* the rows that count as spending
spending(txs) == { t \in txs : t.type \in {"expense", "payroll_deduction"} }

\* expensesMap: the spending of each category name that has any
expensesMap(txs) ==
    [ name \in { t.category : t \in spending(txs) } |->
        reduce({ t \in spending(txs) : t.category = name }, 0) ]

\* expensesMap[name] || 0
actual(map, name) == IF name \in DOMAIN map THEN map[name] ELSE 0

\* the budget, whatever was spent
MathMaxFirst(a, b) == a

MathMax(a, b) == IF a >= b THEN a ELSE b

\* categories.forEach: the greater of budget and spending, category by
\* category
RECURSIVE forEachCategory(_, _, _)
forEachCategory(cats, map, committedExpense) ==
    LET Rest(cat) ==
            forEachCategory(cats \ {cat}, map,
                sumCurrency(committedExpense,
                            MathMax(toCents(parseFloat(cat.budget)),
                                    toCents(parseFloat(actual(map, cat.name))))))
    IN  IF cats = {} THEN committedExpense
        ELSE Rest(CHOOSE c \in cats : \A o \in cats : c.id <= o.id)

\* Object.keys(expensesMap).forEach: the names no category has
RECURSIVE forEachLoose(_, _, _)
forEachLoose(names, map, committedExpense) ==
    LET Rest(catName) ==
            forEachLoose(names \ {catName}, map,
                         sumCurrency(committedExpense, map[catName]))
    IN  IF names = {} THEN committedExpense
        ELSE Rest(CHOOSE n \in names : TRUE)

committedExpense(txs, cats) ==
    LET Loose(map) == DOMAIN map \ { cat.name : cat \in cats }
        Committed(map) ==
            forEachLoose(Loose(map), map, forEachCategory(cats, map, 0))
    IN  Committed(expensesMap(txs))

\* SummaryCards: summary and balance
summary(txs, cats) ==
    [ income |-> grossIncome(incomes(txs), payrollDeductions(txs)),
      expense |-> committedExpense(txs, cats),
      totalDeductions |-> payrollDeductions(txs) ]

balance(income, expense) == toCents(FSub(parseFloat(income), parseFloat(expense)))

\* AnnualComparison: a month of annualData
monthTransactions(key) ==
    { t \in transactions : getMonthYearKey(t.billingDate) = key }

annualData(key) ==
    LET Month(txs, cats) ==
            [ grossIncome |-> grossIncome(incomes(txs), payrollDeductions(txs)),
              committedExpense |-> committedExpense(txs, cats) ]
    IN  Month(monthTransactions(key),
              { [cat EXCEPT !.budget = effectiveBudget(cat, monthlyBudgets, key)] :
                cat \in categories })

\* the rows the store may hold: two months, listed and unlisted categories
SummaryRows ==
    { Transaction(1, 1, "MERCADO", 10, "expense", "FOOD", 20240103, 20240103,
                  "single", Undefined, Undefined),
      Transaction(2, 2, "FEIRA", 20, "expense", "FOOD", 20240105, 20240105,
                  "single", Undefined, Undefined),
      Transaction(3, 3, "INSS", 250, "payroll_deduction", "FOOD", 20240105,
                  20240105, "single", Undefined, Undefined),
      Transaction(4, 4, "SALARIO", 1000, "income", "OUTROS", 20240105, 20240105,
                  "single", Undefined, Undefined),
      Transaction(5, 5, "CINEMA", 70, "expense", "LAZER", 20240110, 20240110,
                  "single", Undefined, Undefined),
      Transaction(6, 6, "ALUGUEL", 150, "expense", "CASA", 20240131, 20240201,
                  "single", Undefined, Undefined),
      Transaction(7, 7, "BONUS", 5, "income", "OUTROS", 20240201, 20240201,
                  "single", Undefined, Undefined),
      Transaction(8, 8, "LUZ", 20, "expense", "CASA", 20240112, 20240112,
                  "single", Undefined, Undefined) }

\* the categories and overrides are loaded, the transactions on their way
InitSummary ==
    /\ db \in SUBSET SummaryRows
    /\ dbCategories = InitialCategories
    /\ dbBudgets \in InitialOverrides
    /\ transactions = {}
    /\ categories = dbCategories
    /\ monthlyBudgets = dbBudgets
    /\ inflight = {Requested}
    /\ currentDate = FirstMonth
    /\ isFormOpen = FALSE
    /\ editingTransaction = NoTx
    /\ form = NoForm
    /\ showUpdateScopeModal = FALSE
    /\ deleteConfirmation = NoConfirmation
    /\ settings = NoSettings
    /\ nextId = 9
    /\ last = NoLast
    /\ session = Session

NextSummary ==
    \/ StoreSelectTransactions
    \/ setTransactions
    \/ setCurrentDate

SpecSummary == InitSummary /\ [][NextSummary]_vars

(***************************************************************************)
(* Sign-out and sign-in.  The screen without a session is the Auth form,   *)
(* so the handlers of the other sections need a session.  fetchData's      *)
(* first select is sent while the session exists; nothing cancels it       *)
(* when the session ends.                                                  *)
(***************************************************************************)
\* handleLogout, and onAuthStateChange with no session: the session and the
\* working set are cleared; the requests under way are left alone
handleLogout ==
    /\ session # NoSession
    /\ session' = NoSession
    /\ transactions' = {}
    /\ categories' = {}
    /\ UNCHANGED <<storeVars, monthlyBudgets, inflight, currentDate, txUiVars,
                   settings, nextId, last>>

\* onAuthStateChange with a session, and the effect on [session]: fetchData
onAuthStateChange ==
    /\ session = NoSession
    /\ CanFetch
    /\ session' = Session
    /\ inflight' = fetchData
    /\ UNCHANGED <<storeVars, transactions, categories, monthlyBudgets,
                   currentDate, txUiVars, settings, nextId, last>>

\* the store answers a select that reaches it after the sign-out and is
\* taken as anonymous: row-level security gives it no rows
StoreSelectSignedOut ==
    /\ session = NoSession
    /\ Requested \in inflight
    /\ inflight' = (inflight \ {Requested}) \cup {[stage |-> "answered", data |-> {}]}
    /\ UNCHANGED <<storeVars, transactions, categories, monthlyBudgets,
                   currentDate, txUiVars, settings, nextId, last, session>>

\* a signed-in App with its categories loaded and the first fetchData
\* under way
InitSession ==
    /\ db \in SUBSET SummaryRows
    /\ dbCategories = InitialCategories
    /\ dbBudgets = {}
    /\ transactions = {}
    /\ categories = dbCategories
    /\ monthlyBudgets = {}
    /\ inflight = {Requested}
    /\ currentDate = FirstMonth
    /\ isFormOpen = FALSE
    /\ editingTransaction = NoTx
    /\ form = NoForm
    /\ showUpdateScopeModal = FALSE
    /\ deleteConfirmation = NoConfirmation
    /\ settings = NoSettings
    /\ nextId = 9
    /\ last = NoLast
    /\ session = Session

NextSession ==
    \/ StoreSelectTransactions
    \/ StoreSelectSignedOut
    \/ setTransactions
    \/ handleLogout
    \/ onAuthStateChange

SpecSession == InitSession /\ [][NextSession]_vars

(***************************************************************************)
(* The claims.                                                             *)
(***************************************************************************)
RECURSIVE SumAmounts(_)
SumAmounts(seq) ==
    IF seq = <<>> THEN 0 ELSE seq[1].amount + SumAmounts(Tail(seq))

Ids(table) == { s.id : s \in table }

\* C1: creating an installment series of total A in N parts yields N
\* entries whose amounts sum to A, entries 2..N each of A / N truncated to
\* whole cents and entry 1 of that base plus A - base * N.
InstallmentSplit ==
    (/\ last.op = "create"
     /\ last.form.recurrenceType = "installment"
     /\ last.form.amount > 0
     /\ last.form.installments >= 2) =>
        LET A == last.form.amount
            N == last.form.installments
            base == A \div N
        IN  /\ Len(last.saved) = N
            /\ SumAmounts(last.saved) = A
            /\ \A i \in 2..N : last.saved[i].amount = base
            /\ last.saved[1].amount = base + (A - base * N)

\* C2: an edit with scope single of an entry whose id is stored replaces
\* only the stored row of that id: the stored ids are the same, the row
\* keeps its id and groupId and is the row saved, every other row is as it
\* was.
EditSingleReplacesTarget ==
    (/\ last.op = "edit"
     /\ last.scope = "single"
     /\ last.original.id \in Ids(last.before)) =>
        /\ Ids(db) = Ids(last.before)
        /\ \A s \in db : s.id = last.original.id =>
               /\ s = last.saved[1]
               /\ \A b \in last.before : b.id = s.id => b.groupId = s.groupId
        /\ { s \in db : s.id # last.original.id }
             = { b \in last.before : b.id # last.original.id }

EditSingleReached ==
    /\ last.op = "edit"
    /\ last.scope = "single"
    /\ last.original.id \in Ids(last.before)
    /\ last.original.recurrenceType = "installment"
    /\ last.original.installmentTotal = 3
    /\ Cardinality({ s \in db : s.groupId = last.original.groupId }) = 3
    /\ db # last.before

\* the rows a future-scope request on (gid, cutoff) keeps
Kept(table, gid, cutoff) ==
    { s \in table : s.groupId # gid \/ s.billingDate < cutoff }

FutureEditFirstKeepsId ==
    (last.op = "edit" /\ last.scope = "future" /\ last.inserted) =>
        /\ last.saved[1].id = last.original.id
        /\ \A i \in 2..Len(last.saved) : last.saved[i].id \notin Ids(last.before)

\* C4, amended: after a future-scope edit every inserted entry, the first
\* included, carries a fresh id: none was in the store before, none is the
\* edited entry's, and no two are the same.
FutureEditFreshIds ==
    (last.op = "edit" /\ last.scope = "future" /\ last.inserted) =>
        /\ \A i \in 1..Len(last.saved) :
              /\ last.saved[i].id \notin Ids(last.before)
              /\ last.saved[i].id # last.original.id
              /\ last.saved[i] \in db
        /\ \A i, j \in 1..Len(last.saved) :
              last.saved[i].id = last.saved[j].id => i = j

FutureEditInserted ==
    /\ last.op = "edit"
    /\ last.scope = "future"
    /\ last.inserted
    /\ last.original.id \in Ids(last.before)
    /\ Len(last.saved) = 3
    /\ Range(last.saved) \subseteq db

\* C5: a delete with scope future of an entry on view removes exactly the
\* entries of its group with billingDate >= its billingDate; the earlier
\* ones and the other groups stay as they were.
DeleteFutureCutoff ==
    (last.op = "delete" /\ last.scope = "future" /\ last.original # NoTx) =>
        /\ db = Kept(last.before, last.original.groupId, last.original.billingDate)
        /\ last.conf.groupId = last.original.groupId

DeleteFutureReached ==
    /\ last.op = "delete"
    /\ last.scope = "future"
    /\ last.original \in last.before
    /\ last.original \notin db
    /\ \E s \in db : /\ s.groupId = last.original.groupId
                      /\ s.billingDate < last.original.billingDate
    /\ \E s \in db : s.groupId # last.original.groupId
    /\ Cardinality(last.before \ db) >= 2

\* C6: an edit or a delete of an entry that recurs or is a payroll
\* deduction reaches the store only after the scope was asked; for a
\* single entry that is no payroll deduction the scope is not asked and
\* the request has scope single.
ScopeAskedWhenMandatory ==
    last.op \in {"edit", "delete"} =>
        LET t == IF last.op = "edit" THEN last.original ELSE last.conf
        IN  IF t.recurrenceType # "single" \/ t.type = "payroll_deduction"
            THEN last.asked
            ELSE ~last.asked /\ last.scope = "single"

\* the category's default in a categories table
DefaultOf(table, id) == (CHOOSE c \in table : c.id = id).budget

\* the overrides of a table for a category and a month
OverridesOf(table, id, mKey) ==
    { mb \in table : mb.category_id = id /\ mb.month_year = mKey }

\* C7: a future-scope change of a category's default from old to new with
\* month M on view leaves, for each of the 24 months before M, an override
\* of amount old where none existed and the existing override as it was.
FutureChangeFreezesHistory ==
    (/\ last.op = "budget"
     /\ last.scope = "future"
     /\ DefaultOf(last.beforeCategories, last.id) # last.budget) =>
        \A i \in 1..FreezeMonths :
            LET mKey == subMonths(last.month, i)
                was == OverridesOf(last.beforeBudgets, last.id, mKey)
                now == OverridesOf(dbBudgets, last.id, mKey)
            IN  IF was # {} THEN now = was
                ELSE \E mb \in now :
                       mb.amount = DefaultOf(last.beforeCategories, last.id)

\* C8: after a future-scope change to v with month M on view the
\* category's default is v and no override is stored for (category, M), so
\* that its budget in month M is v.
FutureChangeSetsDefault ==
    (last.op = "budget" /\ last.scope = "future") =>
        /\ \E c \in dbCategories : c.id = last.id
        /\ \A c \in dbCategories :
             c.id = last.id =>
                /\ c.budget = last.budget
                /\ effectiveBudget(c, dbBudgets, last.month) = last.budget
        /\ OverridesOf(dbBudgets, last.id, last.month) = {}

FutureChangeReached ==
    /\ last.op = "budget"
    /\ last.scope = "future"
    /\ last.asked
    /\ DefaultOf(last.beforeCategories, last.id) # last.budget
    /\ \E mb \in OverridesOf(last.beforeBudgets, last.id, last.month) :
         mb.amount # last.budget

\* C9: a single-scope change with month M on view leaves exactly one
\* override for (category, M), of the new amount; every default and every
\* other override is as it was.
SingleChangeWritesOneOverride ==
    (last.op = "budget" /\ last.scope = "single") =>
        /\ \E mb \in dbBudgets :
             /\ mb.amount = last.budget
             /\ OverridesOf(dbBudgets, last.id, last.month) = {mb}
        /\ { <<c.id, c.budget>> : c \in dbCategories }
             = { <<c.id, c.budget>> : c \in last.beforeCategories }
        /\ dbBudgets \ OverridesOf(dbBudgets, last.id, last.month)
             = last.beforeBudgets \ OverridesOf(last.beforeBudgets, last.id, last.month)

SingleChangeReplaced ==
    /\ last.op = "budget"
    /\ last.scope = "single"
    /\ \E mb \in OverridesOf(last.beforeBudgets, last.id, last.month) :
         mb.amount # last.budget
    /\ \E mb \in dbBudgets : mb.category_id # last.id
    /\ \E mb \in dbBudgets : mb.category_id = last.id /\ mb.month_year # last.month

\* C10: the same future-scope change applied twice in a row to a category,
\* the same month on view: the second application adds no override and
\* changes none.
SecondFutureChangeAddsNothing ==
    (/\ last.op = "budget"
     /\ last.scope = "future"
     /\ last.prev.op = "budget"
     /\ last.prev.scope = "future"
     /\ last.prev.id = last.id
     /\ last.prev.budget = last.budget
     /\ last.prev.month = last.month) =>
        dbBudgets = last.beforeBudgets

\* exact sum of the amounts of a set of rows, in cents
RECURSIVE SumOf(_)
SumOf(rows) ==
    LET Rest(t) == t.amount + SumOf(rows \ {t})
    IN  IF rows = {} THEN 0 ELSE Rest(CHOOSE r \in rows : TRUE)

\* exact sum of f over a set of names
RECURSIVE SumOver(_, _)
SumOver(names, f) ==
    LET Rest(n) == f[n] + SumOver(names \ {n}, f)
    IN  IF names = {} THEN 0 ELSE Rest(CHOOSE n \in names : TRUE)

SpentIn(txs, name) == SumOf({ t \in spending(txs) : t.category = name })

\* the committed expense the rule gives for a month's rows and categories
CommittedBy(txs, cats) ==
    LET Greater(a, b) == IF a >= b THEN a ELSE b
        listed == { c.name : c \in cats }
        loose == { t.category : t \in spending(txs) } \ listed
    IN  SumOver(cats, [ c \in cats |-> Greater(c.budget, SpentIn(txs, c.name)) ])
        + SumOver(loose, [ n \in loose |-> SpentIn(txs, n) ])

\* C11: the committed expense of the month on view, and of any month of
\* the annual table, is the sum over the listed categories of the greater
\* of effective budget and spending (expense and payroll_deduction rows of
\* that category name), plus the spending of the names no category has.
CommittedExpenseRule ==
    /\ summary(filteredTransactions, effectiveCategories).expense
           = CommittedBy(filteredTransactions, effectiveCategories)
    /\ \A key \in {FirstMonth, LastMonth} :
           annualData(key).committedExpense
               = CommittedBy(monthTransactions(key),
                     { [cat EXCEPT !.budget = effectiveBudget(cat, monthlyBudgets, key)] :
                       cat \in categories })

\* a month where one category is over its budget, one under, and a name
\* without a category has spending
CommittedExpenseReached ==
    /\ \E c \in effectiveCategories :
           SpentIn(filteredTransactions, c.name) > c.budget
    /\ \E c \in effectiveCategories :
           /\ SpentIn(filteredTransactions, c.name) < c.budget
           /\ SpentIn(filteredTransactions, c.name) > 0
    /\ \E t \in spending(filteredTransactions) :
           \A c \in effectiveCategories : c.name # t.category

\* C12: gross income is the sum of the income rows plus the sum of the
\* payroll_deduction rows, and the free balance is gross income minus
\* committed expense.
GrossIncomeAndBalance ==
    LET Free(s) ==
            /\ s.income = SumOf({ t \in filteredTransactions : t.type = "income" })
                        + SumOf({ t \in filteredTransactions : t.type = "payroll_deduction" })
            /\ balance(s.income, s.expense) = s.income - s.expense
    IN  /\ Free(summary(filteredTransactions, effectiveCategories))
        /\ \A key \in {FirstMonth, LastMonth} :
               annualData(key).grossIncome
                   = SumOf({ t \in monthTransactions(key) : t.type = "income" })
                   + SumOf({ t \in monthTransactions(key) : t.type = "payroll_deduction" })

\* a month on view with an income row and a payroll deduction
GrossIncomeReached ==
    /\ \E t \in filteredTransactions : t.type = "income"
    /\ \E t \in filteredTransactions : t.type = "payroll_deduction"

\* C13: creating a series of any recurrenceType and frequency and then
\* deleting with scope future on its first entry, found on view, removes
\* the entries the creation inserted and no other: the store is as it was
\* before the creation.  The request is the one confirmDelete issues for
\* that entry, also where the dialog offers no scope (single).
CreateThenDeleteFutureRestores ==
    /\ last.op = "create" =>
           /\ db = last.before \cup Range(last.saved)
           /\ deleteFuture(db, last.saved[1].groupId, last.saved[1].billingDate)
                  = last.before
    /\ (/\ last.op = "delete"
        /\ last.scope = "future"
        /\ last.original # NoTx
        /\ last.prev.op = "create"
        /\ last.conf.id = last.prev.saved[1].id) =>
           /\ last.before = last.prev.before \cup Range(last.prev.saved)
           /\ db = last.prev.before

CreateThenDeleteFutureReached ==
    /\ last.op = "delete"
    /\ last.scope = "future"
    /\ last.original # NoTx
    /\ last.prev.op = "create"
    /\ last.conf.id = last.prev.saved[1].id
    /\ last.prev.form.recurrenceType = "installment"
    /\ last.prev.form.frequency = "weekly"
    /\ Len(last.prev.saved) = 3
    /\ last.prev.before # {}
    /\ db = last.prev.before

\* C14: a submit whose amount is not positive or not a number, whose
\* category or date is missing, or whose count is below 2 for an
\* installment or repeat series is rejected: no request reaches the store,
\* so every request issued comes from a form free of those faults.
InvalidSubmitRejected ==
    last.op \in {"create", "edit"} =>
        /\ last.form.amount # Blank
        /\ last.form.amount > 0
        /\ last.form.category # ""
        /\ last.form.date # Blank
        /\ last.form.recurrenceType \in {"installment", "repeat"}
              => last.form.installments >= 2

\* the stored installment entries of a group
Installments(table, gid) ==
    { t \in table : t.groupId = gid /\ t.recurrenceType = "installment" }

\* C15: after a series is created, and after any edit or delete that
\* follows, the amounts of the stored entries of its group that are
\* installments sum to the cent to the total entered for the series.
InstallmentSumKept ==
    /\ (last.op = "create" /\ last.form.recurrenceType = "installment") =>
           SumOf(Installments(db, last.saved[1].groupId)) = last.form.amount
    /\ (/\ last.op \in {"edit", "delete"}
        /\ last.prev.op = "create"
        /\ last.prev.form.recurrenceType = "installment"
        /\ Installments(db, last.prev.saved[1].groupId) # {}) =>
           SumOf(Installments(db, last.prev.saved[1].groupId)) = last.prev.form.amount

\* C16: the stored entries of a group all have the same recurrenceType and
\* the same installmentTotal.
GroupConsistent ==
    \A s, t \in db :
        s.groupId = t.groupId =>
            /\ s.recurrenceType = t.recurrenceType
            /\ s.installmentTotal = t.installmentTotal

DestructiveConfirmed ==
    /\ last.op = "delete" => last.conf # NoConfirmation
    /\ (last.op = "edit" /\ last.scope = "future") => last.asked
    /\ (/\ last.op = "budget"
        /\ \/ DefaultOf(dbCategories, last.id) # DefaultOf(last.beforeCategories, last.id)
           \/ dbBudgets # last.beforeBudgets) =>
           last.asked

\* C19: a delete or an edit whose target id is not in the store, and a
\* future-scope delete that finds no entry of the group at or after the
\* cutoff, leave the store as it was.
AbsentTargetNoOp ==
    /\ (last.op = "delete" /\ last.conf.id \notin Ids(last.before)) =>
           db = last.before
    /\ (last.op = "edit" /\ last.original.id \notin Ids(last.before)) =>
           db = last.before
    /\ (/\ last.op = "delete"
        /\ last.scope = "future"
        /\ last.original # NoTx
        /\ \A s \in last.before :
              s.groupId = last.conf.groupId => s.billingDate < last.original.billingDate) =>
           db = last.before

\* C20: when the delete of a future-scope edit is answered and the insert
\* that follows fails, the group's entries at or after the cutoff are
\* gone, none of the replacement entries is stored, the earlier entries
\* and the other groups are as they were, and the store stays so until
\* the next request of the user: nothing is rolled back or sent again.
FailedInsertTruncates ==
    (last.op = "edit" /\ last.scope = "future" /\ ~last.inserted) =>
        /\ db = Kept(last.before, last.original.groupId, last.original.billingDate)
        /\ Range(last.saved) \cap db = {}
        /\ \A s \in db : s.groupId = last.original.groupId =>
               s.billingDate < last.original.billingDate

FailedInsertReached ==
    /\ last.op = "edit"
    /\ last.scope = "future"
    /\ ~last.inserted
    /\ last.original \in last.before
    /\ last.original \notin db
    /\ Cardinality(last.before \ db) >= 2
    /\ \E s \in db : /\ s.groupId = last.original.groupId
                      /\ s.billingDate < last.original.billingDate
    /\ \E s \in db : s.groupId # last.original.groupId
    /\ inflight = {}
    /\ transactions = db

\* C21: a creation inserts the whole series under one fresh groupId: one
\* entry for single; 24, 26 or 52 entries for fixed by frequency monthly,
\* biweekly or weekly, each of the entered amount; count entries for
\* repeat, each of the entered amount; count entries for installment.
CreateInsertsFullSeries ==
    last.op = "create" =>
        LET f == last.form
            n == Len(last.saved)
        IN  /\ db = last.before \cup Range(last.saved)
            /\ Cardinality(Range(last.saved)) = n
            /\ Range(last.saved) \cap last.before = {}
            /\ \A i \in 1..n :
                  /\ last.saved[i].groupId = last.saved[1].groupId
                  /\ last.saved[i].recurrenceType = f.recurrenceType
            /\ \A b \in last.before : b.groupId # last.saved[1].groupId
            /\ f.recurrenceType = "single" => n = 1
            /\ f.recurrenceType = "fixed" =>
                  /\ n = (IF f.frequency = "monthly" THEN 24
                          ELSE IF f.frequency = "biweekly" THEN 26 ELSE 52)
                  /\ \A i \in 1..n : last.saved[i].amount = f.amount
            /\ f.recurrenceType = "repeat" =>
                  /\ n = f.installments
                  /\ \A i \in 1..n : last.saved[i].amount = f.amount
            /\ f.recurrenceType = "installment" => n = f.installments

\* a fixed series created by the week or by the fortnight, beside a store
\* that is not empty
CreateFullSeriesReached ==
    /\ last.op = "create"
    /\ last.before # {}
    /\ \/ last.form.recurrenceType = "fixed" /\ last.form.frequency = "weekly"
          /\ Len(last.saved) = 52
       \/ last.form.recurrenceType = "fixed" /\ last.form.frequency = "biweekly"
          /\ Len(last.saved) = 26
    /\ Range(last.saved) \subseteq db

\* the number of a day in the calendar (Julian day number)
DayNo(date) ==
    LET a == (14 - MonthOf(date)) \div 12
        y == YearOf(date) + 4800 - a
        m == MonthOf(date) + 12 * a - 3
    IN  DayOf(date) + (153 * m + 2) \div 5 + 365 * y + y \div 4 - y \div 100
        + y \div 400 - 32045

\* a date of the calendar
IsDate(date) ==
    /\ MonthOf(date) \in 1..12
    /\ DayOf(date) \in 1..DaysInMonth(YearOf(date), MonthOf(date))

\* date is base moved n calendar months on, the day kept or clamped to
\* the month's last
MonthsOn(base, date, n) ==
    /\ IsDate(date)
    /\ YearOf(date) * 12 + MonthOf(date) = YearOf(base) * 12 + MonthOf(base) + n
    /\ \/ DayOf(date) = DayOf(base)
       \/ /\ DayOf(date) < DayOf(base)
          /\ DayOf(date) = DaysInMonth(YearOf(date), MonthOf(date))

InstallmentNumbersWellFormed ==
    /\ \A t \in db :
          IF t.recurrenceType \in {"installment", "repeat"}
          THEN /\ t.installmentCurrent # Undefined
               /\ t.installmentTotal # Undefined
               /\ 1 <= t.installmentCurrent
               /\ t.installmentCurrent <= t.installmentTotal
          ELSE t.installmentCurrent = Undefined /\ t.installmentTotal = Undefined
    /\ \A s, t \in db :
          (/\ s.groupId = t.groupId
           /\ s.recurrenceType \in {"installment", "repeat"}
           /\ t.recurrenceType \in {"installment", "repeat"}
           /\ s.installmentCurrent = t.installmentCurrent) => s = t

\* the category of an id in a categories table
CategoryOf(table, id) == CHOOSE c \in table : c.id = id

\* C24: after a future-scope change of a category's default made with
\* month M on view, the category's effective budget (the override of the
\* month if there is one, else the default) is in every month before M
\* what it was before the change.  The months looked at are the 24 the
\* change freezes and the one before them.
EarlierMonthsKeepBudget ==
    (last.op = "budget" /\ last.scope = "future") =>
        \A i \in 1..(FreezeMonths + 1) :
            effectiveBudget(CategoryOf(dbCategories, last.id), dbBudgets,
                            subMonths(last.month, i))
              = effectiveBudget(CategoryOf(last.beforeCategories, last.id),
                                last.beforeBudgets, subMonths(last.month, i))

\* C25: once no reload is under way (every request of the user is
\* answered by then, each followed by its reload), the working set is the
\* store's contents: transactions, categories and overrides.
QuiescentWorkingSetIsStore ==
    inflight = {} =>
        /\ transactions = db
        /\ categories = dbCategories
        /\ monthlyBudgets = dbBudgets

\* C26: an entry opened for edit and saved with scope single, the form left
\* as prefilled, keeps its stored amount, date, billingDate, recurrenceType,
\* installmentCurrent and installmentTotal.
UnchangedSingleEditKeeps ==
    (/\ last.op = "edit"
     /\ last.scope = "single"
     /\ last.form = Prefill(last.original)
     /\ last.original \in last.before) =>
        \E t \in db :
            /\ t.id = last.original.id
            /\ t.amount = last.original.amount
            /\ t.date = last.original.date
            /\ t.billingDate = last.original.billingDate
            /\ t.recurrenceType = last.original.recurrenceType
            /\ t.installmentCurrent = last.original.installmentCurrent
            /\ t.installmentTotal = last.original.installmentTotal

\* C27: after a future-scope edit with the form's date and bill-next-month
\* box left as prefilled, every replacement entry is billed on or after the
\* cutoff, the edited entry's own billingDate.
ReplacementsFromCutoff ==
    (/\ last.op = "edit"
     /\ last.scope = "future"
     /\ last.form.date = Prefill(last.original).date
     /\ last.form.startNextMonth = Prefill(last.original).startNextMonth) =>
        \A i \in 1..Len(last.saved) :
            last.saved[i].billingDate >= last.original.billingDate

\* C28: a category saved in Settings with the budget shown in the edit form
\* left as it was (a rename: no scope is asked) keeps its default budget,
\* and every monthly override in the store stays as it was.
RenameKeepsBudgets ==
    (last.op = "budget" /\ ~last.asked) =>
        /\ CategoryOf(dbCategories, last.id).budget
             = CategoryOf(last.beforeCategories, last.id).budget
        /\ dbBudgets = last.beforeBudgets

\* what a payroll deduction r adds to the committed expense of rows txs
\* under categories cats: for a listed category the rise of the greater of
\* budget and spending, for an unlisted name its amount
PayrollRise(txs, cats, r) ==
    LET Greater(a, b) == IF a >= b THEN a ELSE b
        Of(c, spent) == Greater(c.budget, spent + r.amount) - Greater(c.budget, spent)
    IN  IF \E c \in cats : c.name = r.category
        THEN Of(CHOOSE c \in cats : c.name = r.category, SpentIn(txs \ {r}, r.category))
        ELSE r.amount

PayrollRows(txs) == { t \in txs : t.type = "payroll_deduction" }

\* the categories of a month of the annual table
CategoriesIn(key) ==
    { [cat EXCEPT !.budget = effectiveBudget(cat, monthlyBudgets, key)] :
      cat \in categories }

\* C29: a payroll deduction of amount X in a month adds X to the month's
\* gross income and adds to its committed expense the rise of the greater
\* of budget and spending of its category (X for an unlisted name), so the
\* free balance rises by X less that rise: by nothing only when the
\* category was at or over its budget already, or is unlisted.
PayrollDeductionEffect ==
    LET With(r, txs, cats) ==
            /\ summary(txs, cats).income = summary(txs \ {r}, cats).income + r.amount
            /\ summary(txs, cats).expense
                 = summary(txs \ {r}, cats).expense + PayrollRise(txs, cats, r)
            /\ balance(summary(txs, cats).income, summary(txs, cats).expense)
                 = balance(summary(txs \ {r}, cats).income,
                           summary(txs \ {r}, cats).expense)
                   + r.amount - PayrollRise(txs, cats, r)
    IN  /\ \A r \in PayrollRows(filteredTransactions) :
               With(r, filteredTransactions, effectiveCategories)
        /\ \A key \in {FirstMonth, LastMonth} :
               \A r \in PayrollRows(monthTransactions(key)) :
                   /\ With(r, monthTransactions(key), CategoriesIn(key))
                   /\ annualData(key).grossIncome
                        = summary(monthTransactions(key), CategoriesIn(key)).income
                   /\ annualData(key).committedExpense
                        = summary(monthTransactions(key), CategoriesIn(key)).expense

\* C29 as stated: the deduction leaves the free balance as it was, its
\* amount added to gross income and to committed expense alike
PayrollDeductionNeutral ==
    \A r \in PayrollRows(filteredTransactions) :
        LET Same(with, without) ==
                /\ with.income = without.income + r.amount
                /\ with.expense = without.expense + r.amount
                /\ balance(with.income, with.expense)
                     = balance(without.income, without.expense)
        IN  Same(summary(filteredTransactions, effectiveCategories),
                 summary(filteredTransactions \ {r}, effectiveCategories))

\* a month on view with a payroll deduction whose category has other
\* spending and goes over its budget only with the deduction
PayrollDeductionReached ==
    \E r \in PayrollRows(filteredTransactions) :
        \E c \in effectiveCategories :
            /\ c.name = r.category
            /\ SpentIn(filteredTransactions \ {r}, c.name) > 0
            /\ SpentIn(filteredTransactions \ {r}, c.name) < c.budget
            /\ SpentIn(filteredTransactions, c.name) > c.budget

\* C30: while there is no session the working set is empty: transactions
\* and categories, whatever reload was under way at the sign-out.
SignedOutWorkingSetEmpty ==
    session = NoSession => (transactions = {} /\ categories = {})

=============================================================================
